---- MODULE Spec2Model ----
(***************************************************************************)
(* Model of the PostgreSQL-backed FastMCP server                           *)
(* (src/database_mcp_serverv2.py): the module-level pool handle with its   *)
(* init_db / close_db lifecycle helpers, the query safety gate             *)
(* _is_safe_query, the tools and resources that borrow pooled connections, *)
(* and main(); and of the SQLite server's gate and data resource           *)
(* (src/database_mcp_server.py).                                           *)
(*                                                                         *)
(* Every `await` of the source is a scheduling point: a coroutine runs     *)
(* atomically from one await to the next, so each action below is the code *)
(* between two awaits of one coroutine.                                    *)
(*                                                                         *)
(* Query texts are sequences of one-character strings.                     *)
(***************************************************************************)
EXTENDS Integers, Sequences, FiniteSets

(***************************************************************************)
(* Bounds of the model.                                                    *)
(***************************************************************************)
\* number of concurrently running coroutines (requests, lifecycle callers)
NTasks == 2
\* number of create_pool calls a behaviour may make
MaxPools == 2
\* max_size / min_size handed to create_pool (the source defaults are 10 / 2)
MaxSize == 1
MinSize == 1
\* number of whitespace-separated pieces of a generated query text
MaxWords == 2

Tasks == 1..NTasks
Pools == 1..MaxPools
\* the value None of the pool handle and of unset locals
None == 0

(***************************************************************************)
(* Characters and words.                                                   *)
(***************************************************************************)
Upper == <<"A","B","C","D","E","F","G","H","I","J","K","L","M",
           "N","O","P","Q","R","S","T","U","V","W","X","Y","Z">>
LowerCase == <<"a","b","c","d","e","f","g","h","i","j","k","l","m",
               "n","o","p","q","r","s","t","u","v","w","x","y","z">>

\* the control characters U+000B (vertical tab) and U+001C..U+001F (file,
\* group, record and unit separator), for which str.isspace() is true
VT == ""
FS == ""
GS == ""
RS == ""
US == ""

\* the characters str.split() with no argument treats as separators, and
\* str.strip() removes (those of them a one-byte string holds; the others are
\* U+0085, U+00A0 and the Unicode space separators)
Whitespace == {" ", "\t", "\n", "\r", "\f", VT, FS, GS, RS, US}

Range(s) == {s[i] : i \in DOMAIN s}

\* the lower-case letter of each upper-case letter
ToLower ==
    [c \in {Upper[i] : i \in 1..26} |-> LowerCase[CHOOSE i \in 1..26 : Upper[i] = c]]

\* str.lower() on one character
LowerChar(c) == IF c \in DOMAIN ToLower THEN ToLower[c] ELSE c

\* a mutation of str_lower: the text is compared as written
str_lower_identity(s) == s

\* str.lower()
str_lower(s) == [i \in DOMAIN s |-> LowerChar(s[i])]

RECURSIVE SplitFrom(_, _, _)
\* scan s from position i; cur is the token being collected
SplitFrom(s, i, cur) ==
    IF i > Len(s)
    THEN IF cur = <<>> THEN <<>> ELSE <<cur>>
    ELSE IF s[i] \in Whitespace
         THEN IF cur = <<>>
              THEN SplitFrom(s, i + 1, <<>>)
              ELSE <<cur>> \o SplitFrom(s, i + 1, <<>>)
         ELSE SplitFrom(s, i + 1, Append(cur, s[i]))

\* str.split(): the maximal runs of non-whitespace characters, in order
str_split(s) == SplitFrom(s, 1, <<>>)

\* the operator `in` on two strings: sub occurs in s
Contains(sub, s) ==
    \E i \in 1..(Len(s) + 1) :
        /\ i + Len(sub) - 1 <= Len(s)
        /\ SubSeq(s, i, i + Len(sub) - 1) = sub

\* _DENIED_KEYWORDS
DENIED_KEYWORDS ==
    { <<"i","n","s","e","r","t">>,
      <<"u","p","d","a","t","e">>,
      <<"d","e","l","e","t","e">>,
      <<"d","r","o","p">>,
      <<"t","r","u","n","c","a","t","e">>,
      <<"a","l","t","e","r">> }

\* _is_safe_query: the truth value of
\* `tokens and not any(k in tokens for k in _DENIED_KEYWORDS)`
is_safe_query(sql) ==
    LET tokens == str_split(str_lower(sql))
    IN  tokens # <<>> /\ ~ \E k \in DENIED_KEYWORDS : k \in Range(tokens)

(***************************************************************************)
(* Query texts the gate is exercised on: pieces joined by whitespace.      *)
(***************************************************************************)
\* denylisted keywords in several letter cases
KeywordForms ==
    { <<"D","R","O","P">>,
      <<"D","e","l","e","t","e">>,
      <<"i","n","s","e","r","t">>,
      <<"U","P","D","A","T","E">>,
      <<"t","R","U","N","C","A","T","E">>,
      <<"A","l","t","e","r">> }

\* identifiers that contain a denylisted keyword as a proper substring
IdentifierForms ==
    { <<"d","r","o","p","p","e","d","_","i","t","e","m","s">>,
      <<"U","p","d","a","t","e","d","_","a","t">>,
      <<"i","n","s","e","r","t","s">> }

\* pieces with no denylisted keyword in them
NeutralForms ==
    { <<"S","E","L","E","C","T">>,
      <<"*">>,
      <<"u","s","e","r","s">>,
      <<"C","R","E","A","T","E">> }

\* a denylisted keyword delimited by punctuation, not by whitespace
PunctuatedForms ==
    { <<"d","r","o","p",";">>,
      <<"(","d","e","l","e","t","e">>,
      <<"1",";","D","R","O","P">> }

Pieces == KeywordForms \cup IdentifierForms \cup NeutralForms \cup PunctuatedForms

\* whitespace between two pieces (never empty)
Separators == { <<" ">>, <<"\t">>, <<"\n", " ">>, <<VT>> }
\* whitespace before and after the text (possibly empty)
Paddings == { <<>>, <<" ", "\t">>, <<US>> }

RECURSIVE Join(_, _)
Join(words, sep) ==
    IF words = <<>> THEN <<>>
    ELSE IF Len(words) = 1 THEN words[1]
    ELSE words[1] \o sep \o Join(Tail(words), sep)

WordLists == UNION { [1..n -> Pieces] : n \in 0..MaxWords }

\* the text of a generated query
QueryText(g) == g.lead \o Join(g.words, g.sep) \o g.trail

GateInputs ==
    [ words : WordLists, sep : Separators, lead : Paddings, trail : Paddings,
      verdict : {"pending"} ]

\* the value of the gate variable while the server model runs
GateOff ==
    [ words |-> <<>>, sep |-> <<" ">>, lead |-> <<>>, trail |-> <<>>,
      verdict |-> "off" ]

(***************************************************************************)
(* The database, the statements the handlers send, and what the handlers   *)
(* make of the rows.                                                       *)
(*                                                                         *)
(* A native value is a record [t, v]: t is the Python type asyncpg decoded *)
(* the column to, v tells the values of one column apart.                  *)
(***************************************************************************)
\* rows in each table when the server starts
InitialRows == 3
\* the largest limit a client passes; it stands for an arbitrarily large one
MaxLimitArg == 3
\* the largest offset a client passes in a single read
MaxOffsetArg == 1

Catalog == {"orders", "users"}
TableNames == Catalog \cup {"ghost"}

\* the rows of information_schema.columns for a table of the public schema,
\* by ordinal position (none for a name that is not in the catalog)
Columns(table) ==
    IF table = "users"
    THEN << [column_name |-> "id",         data_type |-> "integer",   is_nullable |-> "NO"],
            [column_name |-> "created_at", data_type |-> "timestamp", is_nullable |-> "YES"],
            [column_name |-> "balance",    data_type |-> "numeric",   is_nullable |-> "YES"],
            [column_name |-> "avatar",     data_type |-> "bytea",     is_nullable |-> "YES"],
            [column_name |-> "note",       data_type |-> "text",      is_nullable |-> "YES"] >>
    ELSE IF table = "orders"
    THEN << [column_name |-> "id",         data_type |-> "integer",   is_nullable |-> "NO"],
            [column_name |-> "total",      data_type |-> "numeric",   is_nullable |-> "YES"],
            [column_name |-> "placed_at",  data_type |-> "timestamp", is_nullable |-> "YES"] >>
    ELSE << >>

\* the i-th stored row of a table, as asyncpg decodes it
NativeRow(table, i) ==
    IF table = "users"
    THEN [id         |-> [t |-> "int",      v |-> i],
          created_at |-> [t |-> "datetime", v |-> i],
          balance    |-> [t |-> "Decimal",  v |-> i],
          avatar     |-> [t |-> "bytes",    v |-> i],
          note       |-> [t |-> "NoneType", v |-> 0]]
    ELSE [id         |-> [t |-> "int",      v |-> i],
          total      |-> [t |-> "Decimal",  v |-> i],
          placed_at  |-> [t |-> "datetime", v |-> i]]

\* the number of rows a table holds (statements of the model change users only)
RowCount(d, table) == IF table = "users" THEN d.users ELSE InitialRows

\* the one-to-one maps of 1..n onto itself
Permutations(n) ==
    { g \in [1..n -> 1..n] : \A a, b \in 1..n : g[a] = g[b] => a = b }

\* the orders in which PostgreSQL may return the rows of a table for a
\* SELECT that has no ORDER BY: any
RowOrders(d, table) ==
    IF table \in d.tables
    THEN { [i \in 1..RowCount(d, table) |-> NativeRow(table, f[i])] :
             f \in Permutations(RowCount(d, table)) }
    ELSE { << >> }

\* the i-th stored row of a table of the SQLite database, as a textual
\* statement run through SQLAlchemy returns it
SqliteRow(table, i) ==
    IF table = "users"
    THEN [id         |-> [t |-> "int",      v |-> i],
          created_at |-> [t |-> "str",      v |-> i],
          balance    |-> [t |-> "float",    v |-> i],
          avatar     |-> [t |-> "bytes",    v |-> i],
          note       |-> [t |-> "NoneType", v |-> 0]]
    ELSE [id         |-> [t |-> "int",      v |-> i],
          total      |-> [t |-> "float",    v |-> i],
          placed_at  |-> [t |-> "str",      v |-> i]]

\* the orders in which SQLite may return the rows of a table for a SELECT
\* that has no ORDER BY: any
SqliteRowOrders(table) ==
    IF table \in Catalog
    THEN { [i \in 1..InitialRows |-> SqliteRow(table, f[i])] :
             f \in Permutations(InitialRows) }
    ELSE { << >> }

Min(a, b) == IF a <= b THEN a ELSE b

\* a statement handed to the connection: its text, the identifier the handler
\* put into the text, and the bind arguments
Stmt(text, ident, args) == [text |-> text, ident |-> ident, args |-> args]

ProbeText == "SELECT version();"
SchemaText == "SELECT column_name, data_type, is_nullable FROM information_schema.columns WHERE table_schema = 'public' AND table_name = $1 ORDER BY ordinal_position;"
DataText == "SELECT * FROM <quote_ident(table_name)> LIMIT $1 OFFSET $2;"
CountText == "SELECT COUNT(*) FROM <quote_ident(table_name)>;"
SelectAllText == "SELECT * FROM <table>"

\* init_db's probe
ProbeStatement == Stmt(ProbeText, "", << >>)
\* get_table_schema: the name travels as the bind argument $1
SchemaStatement(table_name) == Stmt(SchemaText, "", << table_name >>)
\* get_table_data: the quoted name is part of the text, limit and offset are
\* the bind arguments $1 and $2, as the client passed them
DataStatement(table_name, limit, offset) ==
    Stmt(DataText, table_name, << limit, offset >>)
\* get_table_stats: the quoted name is part of the text
CountStatement(table_name) == Stmt(CountText, table_name, << >>)
\* execute_query with the text SELECT * FROM <table>
SelectAllStatement(table) == Stmt(SelectAllText, table, << >>)

\* SELECT * FROM <table> LIMIT <limit> OFFSET <offset> on rows that come in
\* the given order
pg_select(d, table, order, limit, offset) ==
    IF table \notin d.tables
    THEN [error |-> "UndefinedTableError", rows |-> << >>]
    ELSE IF offset < 0
    THEN [error |-> "InvalidRowCountInResultOffsetClauseError", rows |-> << >>]
    ELSE IF limit < 0
    THEN [error |-> "InvalidRowCountInLimitClauseError", rows |-> << >>]
    ELSE [error |-> "",
          rows  |-> SubSeq(order, offset + 1, Min(offset + limit, Len(order)))]

\* the results PostgreSQL may give for a statement: the rows, or the error
pg_results(d, stmt) ==
    IF stmt.text = ProbeText
    THEN { [error |-> "", rows |-> << [version |-> [t |-> "str", v |-> 0]] >>] }
    ELSE IF stmt.text = SchemaText
    THEN { [error |-> "", rows |-> Columns(stmt.args[1])] }
    ELSE IF stmt.text = CountText
    THEN IF stmt.ident \notin d.tables
         THEN { [error |-> "UndefinedTableError", rows |-> << >>] }
         ELSE { [error |-> "",
                 rows |-> << [count |-> [t |-> "int",
                                         v |-> RowCount(d, stmt.ident)]] >>] }
    ELSE IF stmt.text = DataText
    THEN { pg_select(d, stmt.ident, order, stmt.args[1], stmt.args[2]) :
             order \in RowOrders(d, stmt.ident) }
    ELSE { pg_select(d, stmt.ident, order, Len(order), 0) :
             order \in RowOrders(d, stmt.ident) }

\* SELECT * FROM <table> LIMIT <limit> OFFSET <offset> in SQLite, on rows that
\* come in the given order: a negative LIMIT means no upper bound, a negative
\* OFFSET means none
sqlite_select(table, order, limit, offset) ==
    IF table \notin Catalog
    THEN [error |-> "OperationalError", rows |-> << >>]
    ELSE LET first == IF offset < 0 THEN 1 ELSE offset + 1
             last == IF limit < 0 THEN Len(order)
                     ELSE Min(first - 1 + limit, Len(order))
         IN  [error |-> "", rows |-> SubSeq(order, first, last)]

\* the conversion of one value in the serialisation loop
processed_value(value) ==
    IF value.t = "datetime" THEN [t |-> "iso8601 str", v |-> value.v]
    ELSE IF value.t = "Decimal" THEN [t |-> "float", v |-> value.v]
    ELSE value

\* the serialisation loop over the fetched rows
processed_rows(rows) ==
    [i \in 1..Len(rows) |->
        [c \in DOMAIN rows[i] |-> processed_value(rows[i][c])]]

\* what a read ends with: a value (returned), an exception (raised), the
\* rejection envelope (rejected) or its cancellation (cancelled), with the
\* statements sent to the database on its behalf
Reply(kind, table, status, error, sent, columns, rows, total_rows) ==
    [kind |-> kind, table |-> table, status |-> status, error |-> error,
     sent |-> sent, columns |-> columns, rows |-> rows,
     total_rows |-> total_rows]

\* get_table_schema, from the fetched rows on: one column descriptor per row
get_table_schema(table_name, rows, sent) ==
    Reply("schema", table_name, "returned", "", sent,
          [i \in 1..Len(rows) |->
              [name     |-> rows[i].column_name,
               type     |-> rows[i].data_type,
               nullable |-> rows[i].is_nullable = "YES"]],
          << >>, 0)

\* get_table_data, from the fetched rows on
get_table_data(table_name, rows, sent) ==
    Reply("data", table_name, "returned", "", sent,
          << >>, processed_rows(rows), 0)

\* get_table_stats, from the return of its get_table_schema call on
get_table_stats(table_name, total_rows, rows, sent) ==
    LET schema_info == get_table_schema(table_name, rows, sent)
    IN  Reply("stats", table_name, "returned", "", sent,
              schema_info.columns, << >>, total_rows)

\* execute_query, from the fetched rows on
execute_query_results(table, rows, sent) ==
    Reply("query", table, "returned", "", sent,
          << >>, processed_rows(rows), 0)

\* data://tables/{table_name} of the SQLite server
\* (src/database_mcp_server.py): the name is put into the statement text as
\* it is, limit and offset are bound; the rows go out as they came
sqlite_get_table_data(table_name, limit, offset, order) ==
    LET stmt == Stmt("SELECT * FROM <table_name> LIMIT :limit OFFSET :offset",
                     table_name, << limit, offset >>)
        r == sqlite_select(table_name, order, limit, offset)
    IN  IF r.error # ""
        THEN Reply("sqlite_data", table_name, "raised", r.error,
                   << stmt >>, << >>, << >>, 0)
        ELSE Reply("sqlite_data", table_name, "returned", "",
                   << stmt >>, << >>, r.rows, 0)

\* a call a client makes: the handler and its arguments
Request(kind, table, limit, offset) ==
    [kind |-> kind, table |-> table, limit |-> limit, offset |-> offset]

NoRequest == Request("none", "", 0, 0)

\* the read of the observed client that is under way: the coroutine that
\* serves it, its arguments, the statements sent for it so far, the rows its
\* last fetch returned, the row count (stats://), the exception on its way out
NoRead ==
    [ by |-> None, req |-> NoRequest, sent |-> << >>, rows |-> << >>,
      total |-> 0, error |-> "" ]

\* the text SELECT * FROM <table>
SelectAllFrom(table) ==
    <<"S","E","L","E","C","T"," ","*"," ","F","R","O","M"," ">> \o
    (IF table = "users" THEN <<"u","s","e","r","s">>
     ELSE IF table = "orders" THEN <<"o","r","d","e","r","s">>
     ELSE <<"g","h","o","s","t">>)

(***************************************************************************)
(* The server.                                                             *)
(***************************************************************************)
\* query texts handed to execute_query / export_to_csv
QSelect == <<"S","E","L","E","C","T"," ","1">>
QDelete == <<"D","E","L","E","T","E"," ","F","R","O","M"," ","u","s","e","r","s">>
QShow == <<"S","H","O","W"," ","s","e","r","v","e","r","_","v","e","r","s","i","o","n">>
\* WITH d AS (DELETE FROM users) SELECT 1
QPurge ==
    <<"W","I","T","H"," ","d"," ","A","S"," ","(","D","E","L">> \o
    <<"E","T","E"," ","F","R","O","M"," ","u","s","e","r","s">> \o
    <<")"," ","S","E","L","E","C","T"," ","1">>
\* the texts execute_query is called with, and those export_to_csv is called
\* with (empty and blank texts are classified in the gate's own specification)
HandlerQueries == {QSelect, QDelete, QShow}
ExportQueries == {QSelect, QDelete}

QueryTools == {"execute_query", "export_to_csv"}
Tools == QueryTools \cup {"list_tables"}

VARIABLES
    db_pool,   \* the module-level handle _db_pool: a pool id, or None
    pools,     \* the pool objects create_pool has been called for
    db,        \* the database: its tables and the row count of users
    task,      \* the coroutines: position, operation, locals
    hist,      \* history of init_db returns (for stating idempotence)
    entry,     \* how the module is run: main(), or served by an embedding
    gate,      \* the query the gate is exercised on, and its verdict
    res        \* the build, and the session of one observed client: the
               \* reads it still makes, the read under way, the replies it got

vars == <<db_pool, pools, db, task, hist, entry, gate, res>>

NoPool == [st |-> "none", open |-> 0, out |-> 0, probed |-> FALSE, closes |-> 0]

IdleTask ==
    [ pc |-> "idle", op |-> "none", sql |-> <<>>, pool |-> None, ctx |-> None,
      exc |-> "none", outcome |-> "none", released |-> FALSE, round |-> 1 ]

\* the state as one record, so that the code between two awaits composes
World ==
    [ db_pool |-> db_pool, pools |-> pools, db |-> db, task |-> task,
      hist |-> hist, res |-> res ]

Becomes(w) ==
    /\ db_pool' = w.db_pool
    /\ pools' = w.pools
    /\ db' = w.db
    /\ task' = w.task
    /\ hist' = w.hist
    /\ res' = w.res

Created(w) == {p \in Pools : w.pools[p].st # "none"}

\* positions inside the slow path of init_db

\* coroutine t serves the read of the observed client
Observed(w, t) == w.res.read.by = t

\* the statement handler t hands to its connection
Statement(w, t) ==
    LET rq == w.res.read.req
    IN  CASE w.task[t].op = "get_table_data" ->
                 DataStatement(rq.table, rq.limit, rq.offset)
          [] w.task[t].op = "get_table_stats" /\ w.task[t].round = 1 ->
                 CountStatement(rq.table)
          [] w.task[t].op = "execute_query" ->
                 SelectAllStatement(rq.table)
          [] OTHER ->
                 SchemaStatement(rq.table)

\* a statement goes to the database on behalf of the observed read
Sends(w, t, stmt) ==
    IF Observed(w, t)
    THEN [w EXCEPT !.res.read.sent = Append(@, stmt)]
    ELSE w

\* the fetch of the observed read returned rows
Keeps(w, t, rows) ==
    IF Observed(w, t) THEN [w EXCEPT !.res.read.rows = rows] ELSE w

\* exception e is raised in the observed read
Fails(w, t, e) ==
    IF Observed(w, t) THEN [w EXCEPT !.res.read.error = e] ELSE w

\* what the observed client gets when its read ends with outcome out
ReplyTo(w, out) ==
    LET rd == w.res.read
        rq == rd.req
    IN  IF out = "success"
        THEN CASE rq.kind = "schema" ->
                      get_table_schema(rq.table, rd.rows, rd.sent)
               [] rq.kind = "data" ->
                      get_table_data(rq.table, rd.rows, rd.sent)
               [] rq.kind = "stats" ->
                      get_table_stats(rq.table, rd.total, rd.rows, rd.sent)
               [] OTHER ->
                      execute_query_results(rq.table, rd.rows, rd.sent)
        ELSE Reply(rq.kind, rq.table, out,
                   IF out = "raised" THEN rd.error ELSE "",
                   rd.sent, << >>, << >>, 0)

\* the observed client gets the reply to the read coroutine t served
Answered(w, t, out) ==
    IF Observed(w, t)
    THEN [w EXCEPT !.res.log = Append(@, ReplyTo(w, out)),
                   !.res.read = NoRead]
    ELSE w

\* the coroutine ends: its locals are gone, its outcome is what the caller sees
Finish(w, t, out) ==
    [Answered(w, t, out) EXCEPT !.task[t] = [IdleTask EXCEPT !.outcome = out]]

\* a query tool returns the rejection envelope (the request it rejected stays
\* on record until the task runs its next operation)
Reject(w, t) ==
    [Answered(w, t, "rejected") EXCEPT
        !.task[t].pc = "idle", !.task[t].outcome = "rejected"]

\* close_db returned
close_db_returned(w, t) ==
    IF w.task[t].op = "main"
    THEN [w EXCEPT !.task[t].pc = "exited", !.task[t].ctx = None,
                   !.task[t].outcome =
                       IF w.task[t].exc = "none" THEN "success"
                       ELSE IF w.task[t].exc = "cancel" THEN "cancelled"
                       ELSE "raised"]
    ELSE Finish(w, t, "success")

\* close_db up to its await: `if _db_pool: await _db_pool.close()`; on a
\* pool that is closed already close() returns at once, without suspending,
\* and the handle is reset in the same step
close_db(w, t) ==
    IF w.db_pool # None
    THEN LET p == w.db_pool IN
         IF w.pools[p].st = "closed"
         THEN close_db_returned(
                  [w EXCEPT !.pools[p].closes = @ + 1,
                            !.db_pool = None,
                            !.hist.firstRet = None], t)
         ELSE [w EXCEPT !.pools[p].closes = @ + 1,
                        !.pools[p].st = IF @ = "open" THEN "closing" ELSE @,
                        !.task[t].ctx = p,
                        !.task[t].pc = "closing",
                        !.hist.firstRet = None]
    ELSE close_db_returned(w, t)

\* the handler evaluates asyncpg.quote_ident(table_name) on its way from
\* init_db to pool.acquire(): get_table_data (line 203) and get_table_stats
\* (line 231, before its own block; its nested get_table_schema does not)
LooksUpQuoteIdent(w, t) ==
    \/ w.task[t].op = "get_table_data"
    \/ w.task[t].op = "get_table_stats" /\ w.task[t].round = 1

\* init_db returned v to its caller, which runs on to its next await.  A
\* handler raises AttributeError before it reaches pool.acquire() when the
\* installed asyncpg has no attribute quote_ident (res.quote_ident is FALSE)
\* and the handler looks it up, and when v is None (close_db reset the handle
\* while init_db was in its slow path): None has no attribute acquire
init_db_returned(w, t, v) ==
    LET w1 == [w EXCEPT !.hist.firstRet =
                   IF @ = None THEN v ELSE @]
    IN  CASE w.task[t].op = "init_db" ->
                 \* the embedding application keeps the value returned to it
                 [Finish(w1, t, "success") EXCEPT !.task[t].pool = v]
          [] w.task[t].op = "main" ->
                 [w1 EXCEPT !.task[t].pc = "serving", !.task[t].ctx = None]
          [] LooksUpQuoteIdent(w, t) /\ ~ w.res.quote_ident ->
                 Finish(Fails(w1, t, "AttributeError"), t, "raised")
          [] v = None ->
                 Finish(Fails(w1, t, "AttributeError"), t, "raised")
          [] OTHER ->
                 [w1 EXCEPT !.task[t].pool = v, !.task[t].ctx = None,
                            !.task[t].pc = "acquire"]

\* an exception leaves init_db, or the handler body: main() runs its finally
raised(w, t) ==
    IF w.task[t].op = "main"
    THEN close_db([w EXCEPT !.task[t].exc = "error"], t)
    ELSE Finish(w, t, "raised")

\* CancelledError leaves init_db, or the handler body: main() runs its finally
cancelled(w, t) ==
    IF w.task[t].op = "main"
    THEN close_db([w EXCEPT !.task[t].exc = "cancel"], t)
    ELSE Finish(w, t, "cancelled")

\* init_db up to its first await: the fast path returns the handle, the slow
\* path calls create_pool and suspends
init_db(w, t) ==
    IF w.db_pool # None
    THEN init_db_returned(w, t, w.db_pool)
    ELSE LET p == CHOOSE q \in Pools \ Created(w) :
                      \A r \in Pools \ Created(w) : q <= r
         IN  [w EXCEPT !.pools[p].st = "connecting",
                       !.task[t].ctx = p,
                       !.task[t].pc = "creating"]

\* init_db may be entered: the model makes at most MaxPools create_pool calls
CanInit(w) == w.db_pool # None \/ Created(w) # Pools

\* what PostgreSQL does with a statement that reaches conn.fetch: a DELETE
\* FROM users with no WHERE clause, as a statement of its own or inside a
\* WITH clause, removes the rows of users
ExecEffect(d, sql) ==
    IF Contains(<<"d","e","l","e","t","e"," ","f","r","o","m"," ","u","s","e","r","s">>,
                str_lower(sql))
    THEN [d EXCEPT !.users = 0]
    ELSE d

\* a mutation of execute_query: the pool is initialised before the gate is asked
execute_query_init_first(w, t) ==
    IF w.db_pool = None /\ CanInit(w)
    THEN init_db(w, t)
    ELSE IF ~ is_safe_query(w.task[t].sql)
         THEN Reject(w, t)
         ELSE init_db(w, t)

\* execute_query up to its first await
execute_query(w, t) ==
    IF ~ is_safe_query(w.task[t].sql)
    THEN Reject(w, t)
    ELSE init_db(w, t)

\* export_to_csv up to its first await
export_to_csv(w, t) ==
    IF ~ is_safe_query(w.task[t].sql)
    THEN Reject(w, t)
    ELSE init_db(w, t)

\* the module is serving requests
CanServe ==
    \/ entry = "embedded"
    \/ \E u \in Tasks : task[u].op = "main" /\ task[u].pc = "serving"

\* task t enters operation o with query text q
Entered(t, o, q) ==
    [World EXCEPT !.task[t] = [IdleTask EXCEPT !.op = o, !.sql = q]]

(***************************************************************************)
(* Actions: a call up to its first await.                                  *)
(***************************************************************************)
\* execute_query(q) up to its first await
ExecuteQueryCalled(t, q) ==
    /\ task[t].pc = "idle" /\ CanServe
    /\ is_safe_query(q) => CanInit(World)
    /\ Becomes(execute_query(Entered(t, "execute_query", q), t))
    /\ UNCHANGED <<entry, gate>>

CallExecuteQuery(t) == \E q \in HandlerQueries : ExecuteQueryCalled(t, q)

\* a client has the rows of users deleted through execute_query
CallPurge(t) == db.users > 0 /\ ExecuteQueryCalled(t, QPurge)

CallExportToCsv(t) ==
    /\ task[t].pc = "idle" /\ CanServe
    /\ \E q \in ExportQueries :
           /\ is_safe_query(q) => CanInit(World)
           /\ Becomes(export_to_csv(Entered(t, "export_to_csv", q), t))
    /\ UNCHANGED <<entry, gate>>

CallListTables(t) ==
    /\ task[t].pc = "idle" /\ CanServe /\ CanInit(World)
    /\ Becomes(init_db(Entered(t, "list_tables", <<>>), t))
    /\ UNCHANGED <<entry, gate>>

CallGetTableSchema(t) ==
    /\ task[t].pc = "idle" /\ CanServe /\ CanInit(World)
    /\ Becomes(init_db(Entered(t, "get_table_schema", <<>>), t))
    /\ UNCHANGED <<entry, gate>>

CallGetTableData(t) ==
    /\ task[t].pc = "idle" /\ CanServe /\ CanInit(World)
    /\ Becomes(init_db(Entered(t, "get_table_data", <<>>), t))
    /\ UNCHANGED <<entry, gate>>

CallGetTableStats(t) ==
    /\ task[t].pc = "idle" /\ CanServe /\ CanInit(World)
    /\ Becomes(init_db(Entered(t, "get_table_stats", <<>>), t))
    /\ UNCHANGED <<entry, gate>>

\* an embedding application calls the lifecycle helper init_db
CallInitDb(t) ==
    /\ task[t].pc = "idle" /\ entry = "embedded" /\ CanInit(World)
    /\ Becomes(init_db(Entered(t, "init_db", <<>>), t))
    /\ UNCHANGED <<entry, gate>>

\* an embedding application calls the lifecycle helper close_db
CallCloseDb(t) ==
    /\ task[t].pc = "idle" /\ entry = "embedded"
    /\ Becomes(close_db(Entered(t, "close_db", <<>>), t))
    /\ UNCHANGED <<entry, gate>>

\* main() up to the await inside init_db
CallMain(t) ==
    /\ t = 1 /\ task[t].pc = "idle" /\ entry = "main"
    /\ \A u \in Tasks : task[u].op # "main"
    /\ Becomes(init_db(Entered(t, "main", <<>>), t))
    /\ UNCHANGED <<entry, gate>>

(***************************************************************************)
(* Actions: a coroutine resumes from an await and runs to the next one.    *)
(***************************************************************************)
\* `await asyncpg.create_pool(...)` returns a pool with min_size connections;
\* the handle is assigned and the probe's acquire is awaited
CreatePoolDone(t) ==
    /\ task[t].pc = "creating"
    /\ LET p == task[t].ctx IN
       Becomes([World EXCEPT !.pools[p].st = "open",
                             !.pools[p].open = MinSize,
                             !.db_pool = p,
                             !.task[t].pc = "probe_acquire"])
    /\ UNCHANGED <<entry, gate>>

\* `await asyncpg.create_pool(...)` raises: the handle is not assigned
CreatePoolFails(t) ==
    /\ task[t].pc = "creating"
    /\ LET p == task[t].ctx IN
       Becomes(raised(Fails([World EXCEPT !.pools[p].st = "failed"],
                            t, "OSError"), t))
    /\ UNCHANGED <<entry, gate>>

\* pool.acquire() hands out an idle connection, opening one when all open
\* connections are checked out
PoolAcquire(w, p) ==
    [w EXCEPT !.pools[p].out = @ + 1,
              !.pools[p].open = IF @ < w.pools[p].out + 1
                                THEN w.pools[p].out + 1 ELSE @]

\* pool.acquire() can complete: the pool is open and below max_size
PoolCanAcquire(w, p) ==
    w.pools[p].st = "open" /\ w.pools[p].out < MaxSize

\* pool.acquire() raises InterfaceError: the pool is closing or closed
PoolAcquireRaises(w, p) ==
    w.pools[p].st \in {"closing", "closed"}

\* the connection goes back to the pool
PoolRelease(w, p) == [w EXCEPT !.pools[p].out = @ - 1]

\* init_db lines 89-90: the probe's connection is acquired and SELECT
\* version() is sent on it
ProbeAcquire(t) ==
    /\ task[t].pc = "probe_acquire"
    /\ PoolCanAcquire(World, task[t].ctx)
    /\ Becomes(Sends([PoolAcquire(World, task[t].ctx) EXCEPT
                          !.task[t].pc = "probing"], t, ProbeStatement))
    /\ UNCHANGED <<entry, gate>>

\* init_db line 89 raises
ProbeAcquireFails(t) ==
    /\ task[t].pc = "probe_acquire"
    /\ PoolAcquireRaises(World, task[t].ctx)
    /\ Becomes(raised(Fails(World, t, "InterfaceError"), t))
    /\ UNCHANGED <<entry, gate>>

\* init_db line 90: SELECT version() returns
ProbeDone(t) ==
    /\ task[t].pc = "probing"
    /\ Becomes([World EXCEPT !.pools[task[t].ctx].probed = TRUE,
                             !.task[t].pc = "probe_release"])
    /\ UNCHANGED <<entry, gate>>

\* init_db line 90: SELECT version() raises
ProbeFails(t) ==
    /\ task[t].pc = "probing"
    /\ Becomes(Fails([World EXCEPT !.task[t].exc = "error",
                                   !.task[t].pc = "probe_release"],
                      t, "PostgresError"))
    /\ UNCHANGED <<entry, gate>>

\* init_db lines 89-93: the `async with` block is left, the connection is
\* released, and init_db returns the handle (or the exception propagates)
init_db_probe_exit(w, t) ==
    LET w1 == PoolRelease(w, w.task[t].ctx)
    IN  IF w.task[t].exc = "none"
        THEN init_db_returned(w1, t, w1.db_pool)
        ELSE IF w.task[t].exc = "cancel"
        THEN cancelled(w1, t)
        ELSE raised(w1, t)

ProbeRelease(t) ==
    /\ task[t].pc = "probe_release"
    /\ Becomes(init_db_probe_exit(World, t))
    /\ UNCHANGED <<entry, gate>>

\* `async with pool.acquire() as conn` in a handler: the connection is
\* acquired and the handler's statement is sent on it
Acquire(t) ==
    /\ task[t].pc = "acquire"
    /\ PoolCanAcquire(World, task[t].pool)
    /\ Becomes(Sends([PoolAcquire(World, task[t].pool) EXCEPT
                          !.task[t].ctx = task[t].pool,
                          !.task[t].pc = "fetch"],
                      t, Statement(World, t)))
    /\ UNCHANGED <<entry, gate>>

\* `async with pool.acquire() as conn` raises in a handler
AcquireFails(t) ==
    /\ task[t].pc = "acquire"
    /\ PoolAcquireRaises(World, task[t].pool)
    /\ Becomes(raised(Fails(World, t, "InterfaceError"), t))
    /\ UNCHANGED <<entry, gate>>

\* the results the statement of handler t may have (the arguments of a
\* request that is not the observed client's are not followed, nor its rows)
FetchResults(w, t) ==
    IF Observed(w, t)
    THEN pg_results(w.db, Statement(w, t))
    ELSE { [error |-> "", rows |-> << >>] }

\* conn.fetch / conn.fetchval returns the rows
FetchDone(t) ==
    /\ task[t].pc = "fetch"
    /\ \E r \in FetchResults(World, t) :
           /\ r.error = ""
           /\ Becomes(Keeps([World EXCEPT
                                !.db = IF task[t].op \in QueryTools
                                       THEN ExecEffect(@, task[t].sql) ELSE @,
                                !.task[t].pc = "release"],
                            t, r.rows))
    /\ UNCHANGED <<entry, gate>>

\* conn.fetch / conn.fetchval raises: the error PostgreSQL answers the
\* statement with, or another database error (the connection is lost, the
\* command times out)
FetchFails(t) ==
    /\ task[t].pc = "fetch"
    /\ \E e \in ({r.error : r \in FetchResults(World, t)} \ {""})
                  \cup {"PostgresError"} :
           Becomes(Fails([World EXCEPT !.task[t].exc = "error",
                                       !.task[t].pc = "release"], t, e))
    /\ UNCHANGED <<entry, gate>>

\* pool.close() is cancelled: the pool terminates its connections and is
\* closed, CancelledError leaves close_db before line 102 resets the handle
close_db_cancelled(w, t) ==
    LET p == w.task[t].ctx
        w1 == [w EXCEPT !.pools[p].st = "closed", !.pools[p].open = 0]
    IN  IF w.task[t].op = "main"
        THEN [w1 EXCEPT !.task[t].pc = "exited", !.task[t].ctx = None,
                        !.task[t].outcome = "cancelled"]
        ELSE Finish(w1, t, "cancelled")

\* the coroutine is cancelled: CancelledError is raised at the await it is
\* suspended in.  Inside an `async with` block the connection is released
\* on the way out (the release itself runs to its end when it is cancelled)
task_cancelled(w, t) ==
    CASE w.task[t].pc = "creating" ->
             cancelled([w EXCEPT !.pools[w.task[t].ctx].st = "failed"], t)
      [] w.task[t].pc \in {"probe_acquire", "acquire"} ->
             cancelled(w, t)
      [] w.task[t].pc = "probing" ->
             [w EXCEPT !.task[t].exc = "cancel", !.task[t].pc = "probe_release"]
      [] w.task[t].pc = "fetch" ->
             [w EXCEPT !.task[t].exc = "cancel", !.task[t].pc = "release"]
      [] w.task[t].pc \in {"probe_release", "release"} ->
             [w EXCEPT !.task[t].exc = "cancel"]
      [] w.task[t].pc = "serving" ->
             cancelled(w, t)
      [] OTHER ->
             close_db_cancelled(w, t)

\* positions at which a coroutine is suspended in an await
AwaitPcs ==
    {"creating", "probe_acquire", "probing", "probe_release", "acquire",
     "fetch", "release", "serving", "closing"}

\* the request (or main, or the helper call) is cancelled while it waits
Cancelled(t) ==
    /\ task[t].pc \in AwaitPcs
    /\ task[t].pc \in {"probe_release", "release"} => task[t].exc # "cancel"
    /\ Becomes(task_cancelled(World, t))
    /\ UNCHANGED <<entry, gate>>

\* get_table_stats keeps the value fetchval returned: the first column of the
\* first row
Counted(w, t) ==
    IF Observed(w, t)
    THEN [w EXCEPT !.res.read.total = w.res.read.rows[1].count.v]
    ELSE w

\* the handler ended by an exception or a cancellation that left its
\* `async with` block, that is while it had a connection checked out (kept
\* on record with the outcome, until the task runs its next operation)
Unwound(w, t) == [w EXCEPT !.task[t].released = TRUE]

\* a mutation of handler_exit: an exception leaves the block without release
handler_exit_leaks_on_error(w, t, written) ==
    LET w1 == IF w.task[t].exc = "none" THEN PoolRelease(w, w.task[t].ctx) ELSE w
    IN  CASE w.task[t].exc = "cancel" -> Unwound(Finish(w1, t, "cancelled"), t)
          [] w.task[t].exc = "error" -> Unwound(raised(w1, t), t)
          [] w.task[t].op = "get_table_stats" /\ w.task[t].round = 1 ->
                 init_db([Counted(w1, t) EXCEPT !.task[t].round = 2,
                                                !.task[t].ctx = None], t)
          [] w.task[t].op = "export_to_csv" /\ ~ written ->
                 raised(Fails(w1, t, "OSError"), t)
          [] OTHER -> Finish(w1, t, "success")

\* a mutation of handler_exit: get_table_stats calls get_table_schema inside
\* its `async with` block, with the connection of the row count still held
handler_exit_holds_for_schema(w, t, written) ==
    LET w1 == PoolRelease(w, w.task[t].ctx)
    IN  CASE w.task[t].exc = "cancel" -> Unwound(Finish(w1, t, "cancelled"), t)
          [] w.task[t].exc = "error" -> Unwound(raised(w1, t), t)
          [] w.task[t].op = "get_table_stats" /\ w.task[t].round = 1 ->
                 init_db([Counted(w, t) EXCEPT !.task[t].round = 2,
                                               !.task[t].ctx = None], t)
          [] w.task[t].op = "export_to_csv" /\ ~ written ->
                 raised(Fails(w1, t, "OSError"), t)
          [] OTHER -> Finish(w1, t, "success")

\* the `async with` block of a handler is left: the connection is released on
\* every exit; then the handler returns, or raises, or (get_table_stats)
\* goes on to call get_table_schema, which starts with init_db, or
\* (export_to_csv) writes the file with df.to_csv, which raises when the
\* file cannot be written (written is FALSE)
handler_exit(w, t, written) ==
    LET w1 == PoolRelease(w, w.task[t].ctx)
    IN  CASE w.task[t].exc = "cancel" -> Unwound(Finish(w1, t, "cancelled"), t)
          [] w.task[t].exc = "error" -> Unwound(raised(w1, t), t)
          [] w.task[t].op = "get_table_stats" /\ w.task[t].round = 1 ->
                 init_db([Counted(w1, t) EXCEPT !.task[t].round = 2,
                                                !.task[t].ctx = None], t)
          [] w.task[t].op = "export_to_csv" /\ ~ written ->
                 raised(Fails(w1, t, "OSError"), t)
          [] OTHER -> Finish(w1, t, "success")

Release(t) ==
    /\ task[t].pc = "release"
    /\ (task[t].exc = "none" /\ task[t].op = "get_table_stats"
            /\ task[t].round = 1) => CanInit(World)
    /\ \E written \in IF task[t].op = "export_to_csv" /\ task[t].exc = "none"
                      THEN BOOLEAN ELSE {TRUE} :
           Becomes(handler_exit(World, t, written))
    /\ UNCHANGED <<entry, gate>>

\* mcp.run_async returns or raises: main()'s finally calls close_db
ServerStops(t) ==
    /\ task[t].pc = "serving"
    /\ \E e \in {"none", "error"} :
           Becomes(close_db([World EXCEPT !.task[t].exc = e], t))
    /\ UNCHANGED <<entry, gate>>

\* `await _db_pool.close()` returns once every connection is back and closed;
\* close_db then sets the handle to None
CloseDone(t) ==
    /\ task[t].pc = "closing"
    /\ pools[task[t].ctx].out = 0
    /\ LET p == task[t].ctx IN
       Becomes(close_db_returned(
           [World EXCEPT !.pools[p].st = "closed",
                         !.pools[p].open = 0,
                         !.db_pool = None,
                         !.hist.firstRet = None], t))
    /\ UNCHANGED <<entry, gate>>

(***************************************************************************)
(* The gate on its own: one generated query text is classified.            *)
(***************************************************************************)
Classify ==
    /\ gate.verdict = "pending"
    /\ gate' = [gate EXCEPT !.verdict =
                   IF is_safe_query(QueryText(gate))
                   THEN "permitted" ELSE "rejected"]
    /\ UNCHANGED <<db_pool, pools, db, task, hist, entry, res>>

(***************************************************************************)
(* Specifications.                                                         *)
(***************************************************************************)
\* no client is observed
ResOff ==
    [reqs |-> << >>, log |-> << >>, read |-> NoRead, quote_ident |-> FALSE]

\* the server on either build: the installed asyncpg has the attribute
\* quote_ident, or has not
Builds == { [ResOff EXCEPT !.quote_ident = q] : q \in BOOLEAN }

ServerInit ==
    /\ db_pool = None
    /\ pools = [p \in Pools |-> NoPool]
    /\ db = [tables |-> Catalog, users |-> InitialRows]
    /\ task = [t \in Tasks |-> IdleTask]
    /\ hist = [firstRet |-> None]

Init ==
    /\ ServerInit
    /\ entry \in {"main", "embedded"}
    /\ gate = GateOff
    /\ res \in Builds

Next ==
    \E t \in Tasks :
        \/ CallExecuteQuery(t)
        \/ CallExportToCsv(t)
        \/ CallListTables(t)
        \/ CallGetTableSchema(t)
        \/ CallGetTableData(t)
        \/ CallGetTableStats(t)
        \/ CallInitDb(t)
        \/ CallCloseDb(t)
        \/ CallMain(t)
        \/ CreatePoolDone(t)
        \/ CreatePoolFails(t)
        \/ ProbeAcquire(t)
        \/ ProbeAcquireFails(t)
        \/ ProbeDone(t)
        \/ ProbeFails(t)
        \/ ProbeRelease(t)
        \/ Acquire(t)
        \/ AcquireFails(t)
        \/ FetchDone(t)
        \/ FetchFails(t)
        \/ Cancelled(t)
        \/ Release(t)
        \/ ServerStops(t)
        \/ CloseDone(t)

Spec == Init /\ [][Next]_vars

GateInit ==
    /\ ServerInit
    /\ entry = "embedded"
    /\ gate \in GateInputs
    /\ res = ResOff

GateNext == Classify

SpecGate == GateInit /\ [][GateNext]_vars

(***************************************************************************)
(* Properties.                                                             *)
(***************************************************************************)
Classified == gate.verdict \in {"permitted", "rejected"}

\* C1: a query text in which a denylisted keyword stands as a token of its
\* own, in any letter case and with any whitespace before, after and between
\* the tokens, is rejected by _is_safe_query; a non-empty text whose tokens are
\* only identifiers that merely contain such a word, or neutral words, is
\* permitted.
C1_DeniedTokenRejected ==
    Classified =>
        /\ (\E i \in DOMAIN gate.words : gate.words[i] \in KeywordForms)
               => gate.verdict = "rejected"
        /\ (/\ gate.words # <<>>
            /\ \A i \in DOMAIN gate.words :
                   gate.words[i] \in IdentifierForms \cup NeutralForms)
               => gate.verdict = "permitted"

\* an upper-case DROP after leading whitespace, next to an identifier that
\* contains "drop", has been rejected
C1_Witness ==
    /\ gate.verdict = "rejected"
    /\ gate.lead # <<>>
    /\ gate.words = << <<"D","R","O","P">>,
                       <<"d","r","o","p","p","e","d","_","i","t","e","m","s">> >>

FirstTokenIsSelect(sql) ==
    LET tokens == str_split(str_lower(sql))
    IN  tokens # <<>> /\ tokens[1] = <<"s","e","l","e","c","t">>

\* C2: a statement of execute_query / export_to_csv reaches the database only
\* if its first token is SELECT.
C2_OnlyLeadingSelectReachesDb ==
    \A t \in Tasks :
        (task[t].op \in QueryTools /\ task[t].pc = "fetch")
            => FirstTokenIsSelect(task[t].sql)

\* task t enters a query tool in this step with a query the gate rejects
RejectedCall(t) ==
    /\ task[t].pc = "idle"
    /\ task'[t] # task[t]
    /\ task'[t].op \in QueryTools
    /\ ~ is_safe_query(task'[t].sql)

\* C3: a call of execute_query / export_to_csv whose query the gate rejects
\* returns the rejection envelope at once and touches neither the pool handle,
\* nor any pool (none is created, no connection is acquired), nor the database.
C3_RejectedBeforePoolAccess ==
    [][\A t \in Tasks :
          RejectedCall(t) =>
              /\ task'[t].pc = "idle"
              /\ task'[t].outcome = "rejected"
              /\ UNCHANGED <<db_pool, pools, db>>]_vars

\* DELETE FROM users was rejected by execute_query before any pool existed
C3_Witness ==
    \E t \in Tasks :
        /\ task[t].op = "execute_query"
        /\ task[t].sql = QDelete
        /\ task[t].outcome = "rejected"
        /\ db_pool = None
        /\ Created(World) = {}
        /\ db.users = InitialRows

\* task t enters init_db from an operation's first line in this step
InitCalledAtEntry(t) ==
    /\ task[t].pc = "idle"
    /\ task'[t] # task[t]
    /\ ~ CallCloseDb(t)
    /\ ~ (task'[t].pc = "idle" /\ task'[t].outcome = "rejected")

\* task t enters init_db from get_table_stats' call of get_table_schema
InitCalledNested(t) ==
    /\ task[t].pc = "release"
    /\ task[t].op = "get_table_stats"
    /\ task[t].round = 1
    /\ task[t].exc = "none"
    /\ task'[t].pc # "release"

\* C4: an init_db call made while the handle is set returns the handle,
\* leaves it unchanged, calls create_pool for no pool and opens no connection;
\* and when a first call has returned a pool and no close_db has started
\* since, the pool returned is the one the first call returned.
C4_InitIdempotent ==
    [][\A t \in Tasks :
          (db_pool # None /\ (InitCalledAtEntry(t) \/ InitCalledNested(t))) =>
              /\ db_pool' = db_pool
              /\ \A p \in Pools :
                     /\ pools'[p].st = pools[p].st
                     /\ pools'[p].open = pools[p].open
              /\ task'[t].pc \in {"idle", "acquire", "serving"}
              /\ (\/ task'[t].pc = "acquire"
                  \/ task'[t].pc = "idle" /\ task'[t].outcome = "success")
                     => task'[t].pool = db_pool
              /\ hist.firstRet # None => db_pool = hist.firstRet]_vars

\* C5: while no close_db has run, at most one pool is created, every caller of
\* init_db holds the pool the handle names, and every pool that was created is
\* the one the handle names.
C5_PoolCreatedOnce ==
    (\A p \in Pools : pools[p].closes = 0) =>
        /\ Cardinality({p \in Pools : pools[p].st = "open"}) <= 1
        /\ \A p \in Pools : pools[p].st = "open" => db_pool = p
        /\ \A t \in Tasks :
               (task[t].pc \in {"acquire", "fetch", "release"}
                    /\ task[t].pool # None) => task[t].pool = db_pool

\* positions at which a coroutine holds a checked-out connection
HoldingPcs == {"probing", "probe_release", "fetch", "release"}

Holders(p) == {t \in Tasks : task[t].pc \in HoldingPcs /\ task[t].ctx = p}

\* C6: every connection checked out of a pool is held by a coroutine that is
\* inside its `async with` block; so each connection acquired by a handler or
\* by init_db is back in the pool once the block is left (normally, by an
\* exception, by cancellation), and no connection is checked out when no
\* request is in flight.
C6_ConnectionsReleased ==
    \A p \in Pools : pools[p].out = Cardinality(Holders(p))

\* one request was cancelled while it held a connection, another had its
\* query raise while it held one, both are over, no request is in flight, and
\* every pool has its connections back
C6_Witness ==
    /\ \E t, u \in Tasks :
           /\ task[t].outcome = "cancelled" /\ task[t].released
           /\ task[u].outcome = "raised" /\ task[u].released
    /\ \A t \in Tasks : task[t].pc = "idle"
    /\ \E p \in Pools : pools[p].st = "open" /\ pools[p].open > 0
    /\ \A p \in Pools : pools[p].out = 0

RECURSIVE OpenUpTo(_)
\* connections open in the pools 1..n
OpenUpTo(n) == IF n = 0 THEN 0 ELSE pools[n].open + OpenUpTo(n - 1)

\* C7: the process holds at most max_size connections open, and the
\* connections checked out of a pool are held one each by distinct requests.
C7_AtMostMaxSizeConnections ==
    /\ OpenUpTo(MaxPools) <= MaxSize
    /\ \A p \in Pools :
           /\ pools[p].out <= pools[p].open
           /\ pools[p].out = Cardinality(Holders(p))

\* C8: no pool has close() invoked on it twice; a pool that was created is
\* closed once main() has exited, and the handle is None then.
C8_ClosedExactlyOnce ==
    /\ \A p \in Pools : pools[p].closes <= 1
    /\ (\E t \in Tasks : task[t].pc = "exited") =>
           /\ db_pool = None
           /\ \A p \in Pools : pools[p].st \in {"none", "failed", "closed"}
           /\ \A p \in Pools : pools[p].st = "closed" => pools[p].closes = 1

\* the probe of pool p is still to come or under way
ProbePending(p) ==
    \E u \in Tasks :
        task[u].ctx = p /\ task[u].pc \in {"probe_acquire", "probing", "probe_release"}
                        /\ task[u].exc = "none"

\* C9: init_db returns no pool whose probe failed: a pool handed to a caller
\* has passed SELECT version(), or its probe is still running.
C9_NoUnprobedPoolReturned ==
    \A t \in Tasks :
        (task[t].pc \in {"idle", "acquire"} /\ task[t].pool # None)
            => (pools[task[t].pool].probed \/ ProbePending(task[t].pool))

\* C10: a tool invocation that ends has returned an Envelope (the success
\* envelope or the error envelope); no exception leaves the tool function
\* (cancellation of the request aside).
C10_ToolsReturnEnvelope ==
    [][\A t \in Tasks :
          (task[t].op \in Tools /\ task[t].pc # "idle" /\ task'[t].pc = "idle")
              => task'[t].outcome \in {"success", "rejected", "cancelled"}]_vars

(***************************************************************************)
(* The reads of the observed client.  The client makes its reads one after *)
(* the other; each is served by a coroutine of the server, which takes it  *)
(* through init_db, pool.acquire(), the fetch and the release like any     *)
(* other call, while the other coroutine runs the lifecycle helpers.  The  *)
(* SQLite server's handler is synchronous: one call is one step.           *)
(***************************************************************************)
\* the next read of the observed client is of this kind, and its previous
\* read has been answered
Pending(kind) ==
    /\ res.reqs # << >>
    /\ Head(res.reqs).kind = kind
    /\ res.read.by = None

\* coroutine t takes the next read of the observed client
Observe(w, t) ==
    [w EXCEPT !.res.reqs = Tail(@),
              !.res.read = [NoRead EXCEPT !.by = t, !.req = Head(w.res.reqs)]]

\* schema://tables/{table_name} up to its first await
ReadSchema(t) ==
    /\ task[t].pc = "idle" /\ CanServe /\ CanInit(World)
    /\ Pending("schema")
    /\ Becomes(init_db(Observe(Entered(t, "get_table_schema", <<>>), t), t))
    /\ UNCHANGED <<entry, gate>>

\* data://tables/{table_name} up to its first await
ReadData(t) ==
    /\ task[t].pc = "idle" /\ CanServe /\ CanInit(World)
    /\ Pending("data")
    /\ Becomes(init_db(Observe(Entered(t, "get_table_data", <<>>), t), t))
    /\ UNCHANGED <<entry, gate>>

\* stats://tables/{table_name} up to its first await
ReadStats(t) ==
    /\ task[t].pc = "idle" /\ CanServe /\ CanInit(World)
    /\ Pending("stats")
    /\ Becomes(init_db(Observe(Entered(t, "get_table_stats", <<>>), t), t))
    /\ UNCHANGED <<entry, gate>>

\* execute_query("SELECT * FROM <table>") up to its first await
RunQuery(t) ==
    /\ task[t].pc = "idle" /\ CanServe
    /\ Pending("query")
    /\ LET q == SelectAllFrom(Head(res.reqs).table) IN
           /\ is_safe_query(q) => CanInit(World)
           /\ Becomes(execute_query(Observe(Entered(t, "execute_query", q), t), t))
    /\ UNCHANGED <<entry, gate>>

\* data://tables/{table_name} of the SQLite server
ReadSqliteData ==
    /\ Pending("sqlite_data")
    /\ \E order \in SqliteRowOrders(Head(res.reqs).table) :
          res' = [res EXCEPT
                     !.reqs = Tail(@),
                     !.log = Append(@, sqlite_get_table_data(
                                           Head(res.reqs).table,
                                           Head(res.reqs).limit,
                                           Head(res.reqs).offset, order))]
    /\ UNCHANGED <<db_pool, pools, db, task, hist, entry, gate>>

\* what the coroutines do besides: the embedding application's lifecycle
\* calls, and every continuation of a suspended coroutine
Continues(t) ==
    \/ CallCloseDb(t)
    \/ CreatePoolDone(t)
    \/ CreatePoolFails(t)
    \/ ProbeAcquire(t)
    \/ ProbeAcquireFails(t)
    \/ ProbeDone(t)
    \/ ProbeFails(t)
    \/ ProbeRelease(t)
    \/ Acquire(t)
    \/ AcquireFails(t)
    \/ FetchDone(t)
    \/ FetchFails(t)
    \/ Cancelled(t)
    \/ Release(t)
    \/ CloseDone(t)

\* a single read, of any resource, with any arguments
ResInputs ==
    { [ResOff EXCEPT !.reqs = << Request(k, n, l, o) >>, !.quote_ident = q] :
        k \in {"data", "sqlite_data"}, n \in TableNames,
        l \in -1..MaxLimitArg, o \in 0..MaxOffsetArg, q \in BOOLEAN }
    \cup
    { [ResOff EXCEPT !.reqs = << Request(k, n, 0, 0) >>, !.quote_ident = q] :
        k \in {"schema", "stats", "query"}, n \in TableNames, q \in BOOLEAN }

\* the module after the embedding application has called init_db once
WarmInit ==
    /\ db_pool = 1
    /\ pools = [p \in Pools |->
                   IF p = 1
                   THEN [NoPool EXCEPT !.st = "open", !.open = MinSize,
                                       !.probed = TRUE]
                   ELSE NoPool]
    /\ db = [tables |-> Catalog, users |-> InitialRows]
    /\ task = [t \in Tasks |->
                  IF t = 1
                  THEN [IdleTask EXCEPT !.outcome = "success", !.pool = 1]
                  ELSE IdleTask]
    /\ hist = [firstRet |-> 1]

\* one read, on a freshly imported module or on an initialised one
ResInit ==
    /\ ServerInit \/ WarmInit
    /\ entry = "embedded"
    /\ gate = GateOff
    /\ res \in ResInputs

ResNext ==
    \/ ReadSqliteData
    \/ \E t \in Tasks :
           \/ ReadSchema(t)
           \/ ReadData(t)
           \/ ReadStats(t)
           \/ RunQuery(t)
           \/ Continues(t)

SpecRes == ResInit /\ [][ResNext]_vars

\* the reply to the only read of the observed client, once it is there
Replied == Len(res.log) = 1
TheReply == res.log[1]

\* errors of the pool and of the connection, which say nothing about the table
InfrastructureErrors == {"OSError", "InterfaceError", "PostgresError"}

\* C11: a read of schema://, data:// or stats:// for a table name that is not
\* in the catalog does not return (schema:// in particular returns no
\* descriptor); when it raises, and neither the pool nor the connection has
\* failed, it raises UnknownTable; and no statement whose text embeds the name
\* has been sent.
C11_UnknownTableRejected ==
    (Replied /\ TheReply.kind \in {"schema", "data", "stats"}
             /\ TheReply.table \notin Catalog) =>
        /\ TheReply.status # "returned"
        /\ (TheReply.status = "raised"
                /\ TheReply.error \notin InfrastructureErrors)
               => TheReply.error = "UnknownTable"
        /\ \A i \in 1..Len(TheReply.sent) :
              TheReply.sent[i].ident # TheReply.table

\* the types a value may have in a result row that goes on the transport
TransportSafe == {"NoneType", "bool", "int", "float", "str", "iso8601 str"}

\* C12: every value of every row that execute_query or data:// returns is
\* transport-safe; a read that meets a value of another native type does not
\* return (it raises UnsupportedColumnType).
C12_RowsTransportSafe ==
    (Replied /\ TheReply.kind \in {"data", "query"}
             /\ TheReply.status = "returned") =>
        \A i \in 1..Len(TheReply.rows) :
            \A c \in DOMAIN TheReply.rows[i] :
                TheReply.rows[i][c].t \in TransportSafe

(***************************************************************************)
(* Pagination: the observed client reads the first page, the second page,  *)
(* and then both pages at once, on either server, while another client may *)
(* have the rows of the table deleted.  Nobody closes the pool.            *)
(***************************************************************************)
PageInputs ==
    { [ResOff EXCEPT !.reqs = << Request(k, n, size, 0),
                                 Request(k, n, size, size),
                                 Request(k, n, 2 * size, 0) >>,
                     !.quote_ident = q] :
        k \in {"data", "sqlite_data"}, n \in {"users"},
        size \in 1..(InitialRows \div 2), q \in BOOLEAN }

PageInit ==
    /\ ServerInit
    /\ entry = "embedded"
    /\ gate = GateOff
    /\ res \in PageInputs

\* coroutine 1 serves the observed client
ReadPage == ReadData(1)

\* coroutine 2 serves another client, who has the rows of users deleted
Purge == CallPurge(2)

PageNext ==
    \/ ReadSqliteData
    \/ ReadPage
    \/ Purge
    \/ \E t \in Tasks :
           \/ CreatePoolDone(t)
           \/ CreatePoolFails(t)
           \/ ProbeAcquire(t)
           \/ ProbeDone(t)
           \/ ProbeFails(t)
           \/ ProbeRelease(t)
           \/ Acquire(t)
           \/ FetchDone(t)
           \/ FetchFails(t)
           \/ Cancelled(t)
           \/ Release(t)

SpecPage == PageInit /\ [][PageNext]_vars

\* the rows of a reply, as a set
RowSet(reply) == { reply.rows[i] : i \in 1..Len(reply.rows) }

\* the three reads have returned, and the table is as it was
PagesRead ==
    /\ Len(res.log) = 3
    /\ \A i \in 1..3 : res.log[i].status = "returned"
    /\ db.users = InitialRows

\* C13: the pages (limit n, offset 0) and (limit n, offset n) of an unmodified
\* table with at least 2n rows are disjoint, and together they are the rows
\* of the page (limit 2n, offset 0).
C13_PagesPartition ==
    PagesRead =>
        /\ RowSet(res.log[1]) \cap RowSet(res.log[2]) = {}
        /\ RowSet(res.log[1]) \cup RowSet(res.log[2]) = RowSet(res.log[3])

\* C14: whatever limit a client passes to data://, a LIMIT that reaches the
\* database is positive and below the largest value a client can pass (which
\* stands for an arbitrarily large one): such a read is clamped, or rejected
\* with nothing sent.
C14_LimitClamped ==
    (Replied /\ TheReply.kind \in {"data", "sqlite_data"}) =>
        \A i \in 1..Len(TheReply.sent) :
            TheReply.sent[i].text # ProbeText =>
                /\ TheReply.sent[i].args[1] >= 1
                /\ TheReply.sent[i].args[1] < MaxLimitArg

(***************************************************************************)
(* The gate on texts whose keywords are delimited by punctuation.          *)
(***************************************************************************)
\* the characters an SQL identifier or keyword is made of
IdentifierChars ==
    Range(LowerCase) \cup Range(Upper) \cup
    {"0", "1", "2", "3", "4", "5", "6", "7", "8", "9", "_"}

\* the text is empty or made of whitespace only
Blank(sql) == \A i \in 1..Len(sql) : sql[i] \in Whitespace

\* a denylisted keyword occurs in the text, in any letter case, with no
\* identifier character next to it on either side
BoundedKeyword(sql) ==
    \E k \in DENIED_KEYWORDS :
        \E i \in 1..Len(sql) :
            /\ i + Len(k) - 1 <= Len(sql)
            /\ [j \in 1..Len(k) |-> LowerChar(sql[i + j - 1])] = k
            /\ (i = 1 \/ sql[i - 1] \notin IdentifierChars)
            /\ (i + Len(k) > Len(sql) \/ sql[i + Len(k)] \notin IdentifierChars)

\* C15: the gate rejects an empty or whitespace-only text, and rejects every
\* text in which a denylisted keyword is bounded by non-identifier characters
\* (whitespace, punctuation, or the ends of the text), so that no such text
\* goes on to conn.fetch.
C15_GateFailsClosed ==
    Classified =>
        /\ Blank(QueryText(gate)) => gate.verdict = "rejected"
        /\ BoundedKeyword(QueryText(gate)) => gate.verdict = "rejected"

(***************************************************************************)
(* The SQLite server (src/database_mcp_server.py): its _is_safe_query and  *)
(* the execute_query tool that calls it.  The tool is synchronous, so one  *)
(* call is one step.                                                       *)
(***************************************************************************)
\* str.strip(): the text without its leading and trailing whitespace
RECURSIVE str_lstrip(_)
str_lstrip(s) ==
    IF s # << >> /\ Head(s) \in Whitespace THEN str_lstrip(Tail(s)) ELSE s

RECURSIVE str_rstrip(_)
str_rstrip(s) ==
    IF s # << >> /\ s[Len(s)] \in Whitespace
    THEN str_rstrip(SubSeq(s, 1, Len(s) - 1)) ELSE s

str_strip(s) == str_rstrip(str_lstrip(s))

\* the gate as its docstring describes it: a keyword branch rejects
sqlite_is_safe_query_rejecting(sql) ==
    LET sql_lower == str_strip(str_lower(sql))
    IN  IF Contains(<<"d","e","l","e","t","e">>, sql_lower) THEN FALSE
        ELSE IF Contains(<<"d","r","o","p">>, sql_lower) THEN FALSE
        ELSE IF Contains(<<"i","n","s","e","r","t">>, sql_lower) THEN FALSE
        ELSE IF Contains(<<"u","p","d","a","t","e">>, sql_lower) THEN FALSE
        ELSE IF Contains(<<"t","r","u","n","c","a","t","e">>, sql_lower) THEN FALSE
        ELSE TRUE

\* _is_safe_query of the SQLite server
sqlite_is_safe_query(sql) ==
    LET sql_lower == str_strip(str_lower(sql))
    IN  IF Contains(<<"d","e","l","e","t","e">>, sql_lower) THEN TRUE
        ELSE IF Contains(<<"d","r","o","p">>, sql_lower) THEN TRUE
        ELSE IF Contains(<<"i","n","s","e","r","t">>, sql_lower) THEN TRUE
        ELSE IF Contains(<<"u","p","d","a","t","e">>, sql_lower) THEN TRUE
        ELSE IF Contains(<<"t","r","u","n","c","a","t","e">>, sql_lower) THEN TRUE
        ELSE TRUE

\* execute_query of the SQLite server: the rejection envelope, or the text is
\* handed to session.execute
sqlite_execute_query(sql) ==
    IF ~ sqlite_is_safe_query(sql) THEN "envelope" ELSE "executed"

SqliteExecuteQuery ==
    /\ gate.verdict = "pending"
    /\ gate' = [gate EXCEPT !.verdict = sqlite_execute_query(QueryText(gate))]
    /\ UNCHANGED <<db_pool, pools, db, task, hist, entry, res>>

SqliteNext == SqliteExecuteQuery

SpecSqlite == GateInit /\ [][SqliteNext]_vars

\* C16: in the SQLite server every call of execute_query, whatever the text
\* (a DELETE, DROP, INSERT, UPDATE or TRUNCATE statement included), hands the
\* text to the database; the rejection envelope is never returned.
C16_SqliteGatePermitsAll ==
    gate.verdict # "pending" => gate.verdict = "executed"

\* a text with DROP as a token of its own, or one with "(delete", has been
\* handed to the database
C16_Witness ==
    /\ gate.verdict = "executed"
    /\ \E i \in DOMAIN gate.words :
          gate.words[i] \in { <<"D","R","O","P">>, <<"(","d","e","l","e","t","e">> }

(***************************************************************************)
(* Requests under fair scheduling.  The module is served by an embedding   *)
(* application that calls neither lifecycle helper: clients read the       *)
(* schema:// and stats:// resources, the first reads initialise the pool.  *)
(*                                                                         *)
(* Fairness: the event loop resumes every coroutine whose await has        *)
(* completed, and every create_pool, probe and query eventually returns or *)
(* raises (weak fairness of Resume; a cancellation may come or not); the   *)
(* pool serves the coroutines that                                         *)
(* wait in acquire() in turn, so one that can be served again and again is *)
(* served (strong fairness of Acquire and ProbeAcquire).                   *)
(***************************************************************************)
LiveInit ==
    /\ ServerInit
    /\ entry = "embedded"
    /\ gate = GateOff
    /\ res \in Builds

LiveNext ==
    \E t \in Tasks :
        \/ CallGetTableSchema(t)
        \/ CallGetTableStats(t)
        \/ CreatePoolDone(t)
        \/ CreatePoolFails(t)
        \/ ProbeAcquire(t)
        \/ ProbeDone(t)
        \/ ProbeFails(t)
        \/ ProbeRelease(t)
        \/ Acquire(t)
        \/ FetchDone(t)
        \/ FetchFails(t)
        \/ Cancelled(t)
        \/ Release(t)

\* a coroutine whose await has completed runs on
Resume(t) ==
    \/ CreatePoolDone(t) \/ CreatePoolFails(t)
    \/ ProbeDone(t) \/ ProbeFails(t) \/ ProbeRelease(t)
    \/ FetchDone(t) \/ FetchFails(t)
    \/ Release(t)

LiveFair ==
    \A t \in Tasks :
        /\ WF_vars(Resume(t))
        /\ SF_vars(Acquire(t))
        /\ SF_vars(ProbeAcquire(t))

SpecLive == LiveInit /\ [][LiveNext]_vars /\ LiveFair

\* the pool task t waits a connection of, or None
WaitsFor(t) ==
    IF task[t].pc = "acquire" THEN task[t].pool
    ELSE IF task[t].pc = "probe_acquire" THEN task[t].ctx
    ELSE None

\* whenever a coroutine waits for a connection of a pool that has none left,
\* each connection of the pool is held by a coroutine that is not waiting for
\* a connection
NoHoldAndWait ==
    \A p \in Pools :
        (pools[p].out = MaxSize /\ \E t \in Tasks : WaitsFor(t) = p) =>
            pools[p].out = Cardinality(Holders(p))

\* C17: a request never waits for a connection while it holds one, so the
\* requests cannot block each other with every connection held by a waiting
\* request; and, under fair scheduling, every request that has started ends.
C17_RequestsComplete ==
    /\ []NoHoldAndWait
    /\ \A t \in Tasks : (task[t].pc # "idle") ~> (task[t].pc = "idle")

\* get_table_stats holds the only connection for its nested get_table_schema
\* (its second round) while another request waits for a connection
C17_Witness ==
    \E t, u \in Tasks :
        /\ task[t].op = "get_table_stats" /\ task[t].round = 2
        /\ task[t].pc = "fetch"
        /\ pools[task[t].ctx].out = MaxSize
        /\ task[u].pc = "acquire" /\ task[u].pool = task[t].ctx
====
